---- MODULE Spec2Model ----
(***************************************************************************)
(* A model of go-invoke-node (src/main.go): an HTTP front-end whose        *)
(* /invoke handler validates a JSON payload, runs `node` as a child        *)
(* process under a deadline-bound context and maps the outcome of the run  *)
(* to an HTTP response.                                                    *)
(*                                                                         *)
(* Byte strings (request bodies, captured stdout/stderr, messages) are     *)
(* sequences of one-character strings.  Configuration strings that the     *)
(* program only compares with "" and passes on are TLA+ strings.           *)
(***************************************************************************)
EXTENDS Integers, Sequences, FiniteSets, TLC

(***************************************************************************)
(* Bounds of the model.                                                    *)
(***************************************************************************)
MaxPayloadLen == 2
MaxOutLen == 1
MaxErrLen == 3
MaxLineLen == 4

\* The in-flight requests the model follows.
Requests == {"r1", "r2"}

\* Sequences over S of length at most n.
SeqsUpTo(S, n) == UNION {[1..k -> S] : k \in 0..n}

PayloadChars == {"[", "]", "1"}
OutChars == {"o", "\n"}
ErrChars == {"E", " ", "\n"}

Bodies == SeqsUpTo(PayloadChars, MaxPayloadLen)
Outs == SeqsUpTo(OutChars, MaxOutLen)
Errs == SeqsUpTo(ErrChars, MaxErrLen)
Methods == {"POST", "GET"}
ExitCodes == {0, 1}

(***************************************************************************)
(* Program constants (src/main.go:19-31).                                  *)
(***************************************************************************)
defaultPort == 8080
defaultTimeout == 30
defaultEnvFile == ""
defaultInline == ""
defaultScriptFile == ""

VARIABLES
    phase,      \* main: "boot", "envLoaded", "flagsLoaded", "serving", "fatal"
    env,        \* the process environment read by LoadEnv
    flags,      \* the command line read by LoadFlags
    cfg,        \* the Config value of main, captured by the handler
    pc,         \* per request: the handler's position
    method,     \* per request: r.Method
    body,       \* per request: the bytes behind r.Body
    bodyReads,  \* per request: how often r.Body was read
    readErr,    \* per request: the error io.ReadAll returned ("" for nil)
    bodyClosed, \* per request: who closed r.Body: "open", "handler", "server"
    reqCtx,     \* per request: r.Context(): "active" or "canceled"
    payload,    \* per request: the local payload
    ctx,        \* per request: the derived context
    cmd,        \* per request: the exec.Cmd (Path, Args, Stdin)
    runCalls,   \* per request: calls of cmd.Run
    child,      \* per request: the child process
    spawns,     \* per request: child processes started
    watch,      \* per request: exec's context watcher
    outBuf,     \* per request: captured standard output
    errBuf,     \* per request: captured standard error
    runErr,     \* per request: the error cmd.Run returned ("" for nil)
    resp,       \* per request: the responses written
    cancels,    \* per request: calls of the context's cancel function
    expired,    \* per request: the timeout elapsed while the child was running
    call        \* one call of firstLine: its arguments and its result

bootVars == <<phase, env, flags, cfg>>
reqVars == <<pc, method, body, bodyReads, readErr, bodyClosed, reqCtx, payload, ctx,
             cmd, runCalls, child, spawns, watch, outBuf, errBuf, runErr, resp, cancels,
             expired>>
vars == <<phase, env, flags, cfg, pc, method, body, bodyReads, readErr, bodyClosed,
          reqCtx, payload, ctx, cmd, runCalls, child, spawns, watch, outBuf, errBuf,
          runErr, resp, cancels, expired, call>>

(***************************************************************************)
(* Conversions used by LoadEnv.                                            *)
(***************************************************************************)
Digits == {"0", "1", "2", "3", "4", "5", "6", "7", "8", "9"}

DigitVal(c) ==
    CASE c = "0" -> 0 [] c = "1" -> 1 [] c = "2" -> 2 [] c = "3" -> 3
      [] c = "4" -> 4 [] c = "5" -> 5 [] c = "6" -> 6 [] c = "7" -> 7
      [] c = "8" -> 8 [] c = "9" -> 9

RECURSIVE DecimalVal(_)
DecimalVal(s) ==
    IF s = <<>> THEN 0
    ELSE 10 * DecimalVal(SubSeq(s, 1, Len(s) - 1)) + DigitVal(s[Len(s)])

AllDigits(s) == s # <<>> /\ \A i \in 1..Len(s) : s[i] \in Digits

\* strconv.Atoi: an optional sign, then one or more decimal digits.
Atoi(s) ==
    LET signed == s # <<>> /\ s[1] \in {"-", "+"}
        digits == IF signed THEN Tail(s) ELSE s
    IN  IF ~AllDigits(digits) THEN [err |-> TRUE, val |-> 0]
        ELSE IF signed /\ s[1] = "-" THEN [err |-> FALSE, val |-> 0 - DecimalVal(digits)]
        ELSE [err |-> FALSE, val |-> DecimalVal(digits)]

\* time.ParseDuration on the inputs of the model, in seconds: an optional
\* sign, then "0", or decimal digits followed by the unit "s" or "m".
ParseDuration(s) ==
    LET signed == s # <<>> /\ s[1] \in {"-", "+"}
        rest == IF signed THEN Tail(s) ELSE s
        num == IF rest = <<>> THEN <<>> ELSE SubSeq(rest, 1, Len(rest) - 1)
        unit == IF rest = <<>> THEN "" ELSE rest[Len(rest)]
        mag == IF unit = "m" THEN 60 * DecimalVal(num) ELSE DecimalVal(num)
    IN  IF rest = <<"0">> THEN [err |-> FALSE, val |-> 0]
        ELSE IF ~(AllDigits(num) /\ unit \in {"s", "m"}) THEN [err |-> TRUE, val |-> 0]
        ELSE IF signed /\ s[1] = "-" THEN [err |-> FALSE, val |-> 0 - mag]
        ELSE [err |-> FALSE, val |-> mag]

(***************************************************************************)
(* Startup: main, Config.LoadEnv, Config.LoadFlags.                        *)
(***************************************************************************)
DefaultConfig ==
    [Port |-> defaultPort, InlineScript |-> defaultInline,
     ScriptFile |-> defaultScriptFile, EnvFile |-> defaultEnvFile,
     Timeout |-> defaultTimeout]

\* Config.LoadEnv on configuration c and environment e: the configuration
\* it leaves and whether it ended in log.Fatalf.
LoadEnvResult(c, e) ==
    LET p == Atoi(e.PORT)
        c1 == IF e.PORT # <<>> /\ ~p.err THEN [c EXCEPT !.Port = p.val] ELSE c
        c2 == IF e.SCRIPT # "" THEN [c1 EXCEPT !.InlineScript = e.SCRIPT] ELSE c1
        c3 == IF e.SCRIPT_FILE # "" THEN [c2 EXCEPT !.ScriptFile = e.SCRIPT_FILE] ELSE c2
        c4 == IF e.ENV_FILE # "" THEN [c3 EXCEPT !.EnvFile = e.ENV_FILE] ELSE c3
        d == ParseDuration(e.TIMEOUT_DURATION)
        c5 == IF e.TIMEOUT_DURATION # <<>> /\ ~d.err THEN [c4 EXCEPT !.Timeout = d.val]
              ELSE c4
    IN  IF e.PORT # <<>> /\ p.err THEN [fatal |-> TRUE, cfg |-> c]
        ELSE IF c3.InlineScript # "" /\ c3.ScriptFile # "" THEN [fatal |-> TRUE, cfg |-> c3]
        ELSE IF e.TIMEOUT_DURATION # <<>> /\ d.err THEN [fatal |-> TRUE, cfg |-> c4]
        ELSE [fatal |-> FALSE, cfg |-> c5]

\* Config.LoadFlags on configuration c and command line f: every flag that
\* is given overrides the field, whose current value is the flag's default.
LoadFlagsResult(c, f) ==
    LET p == Atoi(f.port.val)
        d == ParseDuration(f.timeout.val)
        c1 == [Port |-> IF f.port.given /\ ~p.err THEN p.val ELSE c.Port,
               InlineScript |-> IF f.script.given THEN f.script.val ELSE c.InlineScript,
               ScriptFile |-> IF f.scriptFile.given THEN f.scriptFile.val ELSE c.ScriptFile,
               EnvFile |-> IF f.envFile.given THEN f.envFile.val ELSE c.EnvFile,
               Timeout |-> IF f.timeout.given /\ ~d.err THEN d.val ELSE c.Timeout]
    IN  IF (f.port.given /\ p.err) \/ (f.timeout.given /\ d.err)
        THEN [fatal |-> TRUE, cfg |-> c]
        ELSE [fatal |-> c1.InlineScript # "" /\ c1.ScriptFile # "", cfg |-> c1]

\* A check that rejects two script sources and accepts none.
AtMostOneScript(c) == ~(c.InlineScript # "" /\ c.ScriptFile # "")

\* main's own check (src/main.go:106): exactly one script source.
ExactlyOneScript(c) == (c.InlineScript = "") # (c.ScriptFile = "")

LoadEnv ==
    /\ phase = "boot"
    /\ LET res == LoadEnvResult(cfg, env)
       IN  /\ cfg' = res.cfg
           /\ phase' = IF res.fatal THEN "fatal" ELSE "envLoaded"
    /\ UNCHANGED <<env, flags>>
    /\ UNCHANGED <<reqVars, call>>

LoadFlags ==
    /\ phase = "envLoaded"
    /\ LET res == LoadFlagsResult(cfg, flags)
       IN  /\ cfg' = res.cfg
           /\ phase' = IF res.fatal THEN "fatal" ELSE "flagsLoaded"
    /\ UNCHANGED <<env, flags>>
    /\ UNCHANGED <<reqVars, call>>

\* server.ListenAndServe on ":<port>" (src/main.go:110, 124): listening
\* fails for a port outside 0..65535, and port 0 listens on a port the
\* system picks.
ListenOK(c) == c.Port \in 0..65535

\* main after both loaders: the exactly-one check, then ListenAndServe,
\* whose error is fatal.
Serve ==
    /\ phase = "flagsLoaded"
    /\ phase' = IF ExactlyOneScript(cfg) /\ ListenOK(cfg) THEN "serving" ELSE "fatal"
    /\ UNCHANGED <<env, flags, cfg>>
    /\ UNCHANGED <<reqVars, call>>

Boot == LoadEnv \/ LoadFlags \/ Serve

(***************************************************************************)
(* Pure helpers of the handler.                                            *)
(***************************************************************************)
\* json.Valid on byte strings over PayloadChars.  parseValue(s, i) is the
\* index after the JSON value that starts at s[i], or 0 if none starts
\* there: a number is one or more digits "1", an array is "[", at most one
\* value (the alphabet has no comma), "]".
RECURSIVE parseValue(_, _)
parseValue(s, i) ==
    IF i > Len(s) THEN 0
    ELSE IF s[i] = "1"
        THEN IF i < Len(s) /\ s[i + 1] = "1" THEN parseValue(s, i + 1) ELSE i + 1
    ELSE IF s[i] = "["
        THEN IF i < Len(s) /\ s[i + 1] = "]" THEN i + 2
             ELSE LET j == parseValue(s, i + 1)
                  IN  IF j # 0 /\ j <= Len(s) /\ s[j] = "]" THEN j + 1 ELSE 0
    ELSE 0

\* A validator that accepts any input with a JSON value as a prefix.
jsonValidPrefix(s) == parseValue(s, 1) # 0

\* json.Valid(payload): the whole input is exactly one JSON value.
jsonValid(s) == parseValue(s, 1) = Len(s) + 1

IsSpace(c) == c \in {" ", "\t", "\n", "\r"}

\* bytes.TrimSpace
RECURSIVE TrimSpace(_)
TrimSpace(s) ==
    IF s = <<>> THEN s
    ELSE IF IsSpace(s[1]) THEN TrimSpace(Tail(s))
    ELSE IF IsSpace(s[Len(s)]) THEN TrimSpace(SubSeq(s, 1, Len(s) - 1))
    ELSE s

\* The index of the first "\n" of s, 0 if it has none.
IndexNewline(s) ==
    IF \E i \in 1..Len(s) : s[i] = "\n"
    THEN CHOOSE i \in 1..Len(s) : s[i] = "\n" /\ \A j \in 1..(i - 1) : s[j] # "\n"
    ELSE 0

\* A firstLine that takes the first segment whether or not it is blank.
RECURSIVE firstLineAnyLine(_, _)
firstLineAnyLine(s, fallback) ==
    LET nl == IndexNewline(s)
        line == IF nl = 0 THEN s ELSE SubSeq(s, 1, nl - 1)
    IN  IF Len(line) > 0 THEN line
        ELSE IF nl = 0 THEN fallback
        ELSE firstLineAnyLine(SubSeq(s, nl + 1, Len(s)), fallback)

\* A firstLine that trims the line it returns.
RECURSIVE firstLineTrimmed(_, _)
firstLineTrimmed(s, fallback) ==
    LET nl == IndexNewline(s)
        line == IF nl = 0 THEN s ELSE SubSeq(s, 1, nl - 1)
    IN  IF Len(TrimSpace(line)) > 0 THEN TrimSpace(line)
        ELSE IF nl = 0 THEN fallback
        ELSE firstLineTrimmed(SubSeq(s, nl + 1, Len(s)), fallback)

\* firstLine (src/main.go:187): the first "\n"-separated segment of s that
\* is not all white space, else fallback.
RECURSIVE firstLine(_, _)
firstLine(s, fallback) ==
    LET nl == IndexNewline(s)
        line == IF nl = 0 THEN s ELSE SubSeq(s, 1, nl - 1)
    IN  IF Len(TrimSpace(line)) > 0 THEN line
        ELSE IF nl = 0 THEN fallback
        ELSE firstLine(SubSeq(s, nl + 1, Len(s)), fallback)

\* An argument list that names an env file whether or not one is configured.
ArgsEnvFileAlways(c) ==
    <<"--env-file", c.EnvFile>>
    \o (IF c.InlineScript # "" THEN <<"-e", c.InlineScript>> ELSE <<c.ScriptFile>>)

\* The argument list the handler builds (src/main.go:151-161).
Args(c) ==
    (IF c.EnvFile # "" THEN <<"--env-file", c.EnvFile>> ELSE <<>>)
    \o (IF c.InlineScript # "" THEN <<"-e", c.InlineScript>> ELSE <<c.ScriptFile>>)

\* http.Error(w, msg, code): a plain-text response, msg and a newline.
HttpError(msg, code) ==
    [status |-> code, contentType |-> "text/plain; charset=utf-8", body |-> msg \o <<"\n">>]

MethodNotAllowed == HttpError(<<"method not allowed">>, 405)
ReadFailed(ioErr) == HttpError(<<"failed to read request body: ", ioErr>>, 400)
\* An invalid-JSON response with a status outside the handler's four.
InvalidJSONUnprocessable == HttpError(<<"invalid JSON payload">>, 422)
InvalidJSON == HttpError(<<"invalid JSON payload">>, 400)
\* A failure response that carries all of the captured standard error.
NodeFailedWholeStderr(stderr, err) ==
    HttpError(<<"node.js failed: ">> \o (IF stderr = <<>> THEN <<err>> ELSE stderr), 500)
\* The failure response (src/main.go:173-176).
NodeFailed(stderr, err) == HttpError(<<"node.js failed: ">> \o firstLine(stderr, <<err>>), 500)
\* The success response (src/main.go:181-183).
Success(stdout) == [status |-> 200, contentType |-> "application/json", body |-> stdout]

\* ctx.Err() of a context that is done.
CtxErr(c) == IF c = "deadline" THEN "context deadline exceeded" ELSE "context canceled"
CtxDone(c) == c \in {"deadline", "canceled"}

\* The error of a process that did not exit with status zero.
ExitError(ch) ==
    IF ch.killed THEN "signal: killed"
    ELSE IF ch.code = 1 THEN "exit status 1"
    ELSE "exit status 2"

\* The pipes field is the state of the pipes cmd.Run makes for the child's
\* standard output and error, which are buffers and not files
\* (src/main.go:166-168): "open" while the child holds them, "held" while
\* only a process the child started still does, else "closed".
PipeStates == {"closed", "held"}
NoChild == [state |-> "none", code |-> 0, killed |-> FALSE, pipes |-> "closed"]
NoCmd == [Path |-> "", Args |-> <<>>, Stdin |-> <<>>]
NoWatch == [state |-> "off", err |-> ""]
IOErrors == {"unexpected EOF"}
LookPathError == "exec: \"node\": executable file not found in $PATH"
ForkError == "fork/exec node: resource temporarily unavailable"

(***************************************************************************)
(* The /invoke handler (makeInvokeHandler, src/main.go:129-185), one       *)
(* action per step between which the client, the timer or the child can    *)
(* act.  Ms, Bs, Os, Es are the sets the inputs are drawn from.            *)
(***************************************************************************)
\* The server accepts a request and calls the handler.
Arrive(r, Ms, Bs) ==
    /\ phase = "serving"
    /\ pc[r] = "idle"
    /\ \E m \in Ms, b \in Bs :
          /\ method' = [method EXCEPT ![r] = m]
          /\ body' = [body EXCEPT ![r] = b]
    /\ pc' = [pc EXCEPT ![r] = "method"]
    /\ UNCHANGED <<bodyReads, readErr, bodyClosed, reqCtx, payload, ctx, cmd, runCalls,
                   child, spawns, watch, outBuf, errBuf, runErr, resp, cancels,
                   expired>>
    /\ UNCHANGED <<bootVars, call>>

\* CheckMethod without the return after the 405 response.
CheckMethodNoReturn(r) ==
    /\ pc[r] = "method"
    /\ IF method[r] # "POST"
       THEN resp' = [resp EXCEPT ![r] = Append(@, MethodNotAllowed)]
       ELSE UNCHANGED resp
    /\ pc' = [pc EXCEPT ![r] = "read"]
    /\ UNCHANGED <<method, body, bodyReads, readErr, bodyClosed, reqCtx, payload, ctx,
                   cmd, runCalls, child, spawns, watch, outBuf, errBuf, runErr, cancels,
                   expired>>
    /\ UNCHANGED <<bootVars, call>>

\* src/main.go:131-134
CheckMethod(r) ==
    /\ pc[r] = "method"
    /\ IF method[r] # "POST"
       THEN /\ resp' = [resp EXCEPT ![r] = Append(@, MethodNotAllowed)]
            /\ pc' = [pc EXCEPT ![r] = "done"]
       ELSE /\ pc' = [pc EXCEPT ![r] = "read"]
            /\ UNCHANGED resp
    /\ UNCHANGED <<method, body, bodyReads, readErr, bodyClosed, reqCtx, payload, ctx,
                   cmd, runCalls, child, spawns, watch, outBuf, errBuf, runErr,
                   cancels, expired>>
    /\ UNCHANGED <<bootVars, call>>

\* A ReadBody that goes on to validate whatever was read before the error.
ReadBodyIgnoreError(r) ==
    /\ pc[r] = "read"
    /\ bodyReads' = [bodyReads EXCEPT ![r] = @ + 1]
    /\ payload' = [payload EXCEPT ![r] = body[r]]
    /\ pc' = [pc EXCEPT ![r] = "validate"]
    /\ \/ UNCHANGED readErr
       \/ \E e \in IOErrors : readErr' = [readErr EXCEPT ![r] = e]
    /\ UNCHANGED <<method, body, bodyClosed, reqCtx, ctx, cmd, runCalls, child, spawns,
                   watch, outBuf, errBuf, runErr, cancels, expired, resp>>
    /\ UNCHANGED <<bootVars, call>>

\* src/main.go:136-141: io.ReadAll succeeds, or fails with an I/O error;
\* r.Body.Close is deferred only after a successful read.
ReadBody(r) ==
    /\ pc[r] = "read"
    /\ bodyReads' = [bodyReads EXCEPT ![r] = @ + 1]
    /\ \/ /\ payload' = [payload EXCEPT ![r] = body[r]]
          /\ pc' = [pc EXCEPT ![r] = "validate"]
          /\ UNCHANGED <<resp, readErr>>
       \/ \E e \in IOErrors :
             /\ readErr' = [readErr EXCEPT ![r] = e]
             /\ resp' = [resp EXCEPT ![r] = Append(@, ReadFailed(e))]
             /\ pc' = [pc EXCEPT ![r] = "done"]
             /\ UNCHANGED payload
    /\ UNCHANGED <<method, body, bodyClosed, reqCtx, ctx, cmd, runCalls, child, spawns,
                   watch, outBuf, errBuf, runErr, cancels, expired>>
    /\ UNCHANGED <<bootVars, call>>

\* src/main.go:143-146, and the deferred r.Body.Close on return.
Validate(r) ==
    /\ pc[r] = "validate"
    /\ IF ~jsonValid(payload[r])
       THEN /\ resp' = [resp EXCEPT ![r] = Append(@, InvalidJSON)]
            /\ bodyClosed' = [bodyClosed EXCEPT ![r] = "handler"]
            /\ pc' = [pc EXCEPT ![r] = "done"]
       ELSE /\ pc' = [pc EXCEPT ![r] = "prepare"]
            /\ UNCHANGED <<resp, bodyClosed>>
    /\ UNCHANGED <<method, body, bodyReads, readErr, reqCtx, payload, ctx, cmd,
                   runCalls, child, spawns, watch, outBuf, errBuf, runErr, cancels,
                   expired>>
    /\ UNCHANGED <<bootVars, call>>

\* context.WithTimeout(parent, d): done at once when the parent is done or
\* the deadline has already passed.
WithTimeout(parent, d) ==
    IF parent = "canceled" THEN "canceled"
    ELSE IF d <= 0 THEN "deadline"
    ELSE "active"

\* A context derived from context.Background(): it does not follow r.Context().
OnParentCancelDetached(c) == c

\* A parent cancellation that overwrites the error of a context that is
\* already done.
OnParentCancelOverwrite(c) == IF c \in {"active", "deadline"} THEN "canceled" ELSE c

\* What the cancellation of r.Context() does to the context c that
\* src/main.go:148 derives from it.
OnParentCancel(c) == IF c = "active" THEN "canceled" ELSE c

\* A command whose standard input is left unset.
CommandNoStdin(c, p) == [Path |-> "node", Args |-> Args(c), Stdin |-> <<>>]

\* exec.CommandContext(ctx, "node", args...) with cmd.Stdin set.
Command(c, p) == [Path |-> "node", Args |-> Args(c), Stdin |-> p]

\* src/main.go:148-168
Prepare(r) ==
    /\ pc[r] = "prepare"
    /\ ctx' = [ctx EXCEPT ![r] = WithTimeout(reqCtx[r], cfg.Timeout)]
    /\ cmd' = [cmd EXCEPT ![r] = Command(cfg, payload[r])]
    /\ pc' = [pc EXCEPT ![r] = "run"]
    /\ UNCHANGED <<method, body, bodyReads, readErr, bodyClosed, reqCtx, payload,
                   runCalls, child, spawns, watch, outBuf, errBuf, runErr, resp,
                   cancels, expired>>
    /\ UNCHANGED <<bootVars, call>>

\* A handler whose cancel function is shared by all requests: returning
\* cancels every request's context.
ReturnWithSharedCancel(r, w) ==
    /\ resp' = [resp EXCEPT ![r] = Append(@, w)]
    /\ cancels' = [cancels EXCEPT ![r] = @ + 1]
    /\ ctx' = [q \in Requests |-> IF ctx[q] = "active" THEN "canceled" ELSE ctx[q]]
    /\ bodyClosed' = [bodyClosed EXCEPT ![r] = "handler"]
    /\ pc' = [pc EXCEPT ![r] = "done"]

\* A handler that never defers r.Body.Close().
ReturnWithNoClose(r, w) ==
    /\ resp' = [resp EXCEPT ![r] = Append(@, w)]
    /\ cancels' = [cancels EXCEPT ![r] = @ + 1]
    /\ ctx' = [ctx EXCEPT ![r] = IF @ = "active" THEN "canceled" ELSE @]
    /\ UNCHANGED bodyClosed
    /\ pc' = [pc EXCEPT ![r] = "done"]

\* The handler returns after src/main.go:149: it writes response w, and the
\* deferred cancel() and r.Body.Close() run.
ReturnWith(r, w) ==
    /\ resp' = [resp EXCEPT ![r] = Append(@, w)]
    /\ cancels' = [cancels EXCEPT ![r] = @ + 1]
    /\ ctx' = [ctx EXCEPT ![r] = IF @ = "active" THEN "canceled" ELSE @]
    /\ bodyClosed' = [bodyClosed EXCEPT ![r] = "handler"]
    /\ pc' = [pc EXCEPT ![r] = "done"]

\* A handler that answers 200 only when the child wrote something.
RespondNonEmpty(err, stdout, stderr) ==
    IF err # "" \/ stdout = <<>> THEN NodeFailed(stderr, err) ELSE Success(stdout)

\* The response for the result err of cmd.Run (src/main.go:170-183).
Respond(err, stdout, stderr) ==
    IF err # "" THEN NodeFailed(stderr, err) ELSE Success(stdout)

\* src/main.go:170, cmd.Run's Start: a failed lookup of "node", a context
\* that is already done, a failed fork, or a started child.
Start(r) ==
    /\ pc[r] = "run"
    /\ runCalls' = [runCalls EXCEPT ![r] = @ + 1]
    /\ \E outcome \in {"lookup fails", "fork fails", "started"} :
          LET err == IF outcome = "lookup fails" THEN LookPathError
                     ELSE IF CtxDone(ctx[r]) THEN CtxErr(ctx[r])
                     ELSE IF outcome = "fork fails" THEN ForkError
                     ELSE ""
          IN  IF err # ""
              THEN /\ runErr' = [runErr EXCEPT ![r] = err]
                   /\ ReturnWith(r, Respond(err, outBuf[r], errBuf[r]))
                   /\ UNCHANGED <<child, spawns, watch>>
              ELSE /\ child' = [child EXCEPT ![r] = [state |-> "running", code |-> 0,
                                                     killed |-> FALSE,
                                                     pipes |-> "open"]]
                   /\ spawns' = [spawns EXCEPT ![r] = @ + 1]
                   /\ watch' = [watch EXCEPT ![r] = [state |-> "on", err |-> ""]]
                   /\ pc' = [pc EXCEPT ![r] = "wait"]
                   /\ UNCHANGED <<runErr, resp, cancels, ctx, bodyClosed>>
    /\ UNCHANGED <<method, body, bodyReads, readErr, reqCtx, payload, cmd, outBuf,
                   errBuf, expired>>
    /\ UNCHANGED <<bootVars, call>>

\* The child exits on its own.  o and e are what the buffers hold once the
\* pipes are closed; a process the child started may keep them open.
ChildExit(r, Os, Es) ==
    /\ child[r].state = "running"
    /\ \E c \in ExitCodes, o \in Os, e \in Es, h \in PipeStates :
          /\ child' = [child EXCEPT ![r] = [state |-> "exited", code |-> c,
                                            killed |-> FALSE, pipes |-> h]]
          /\ outBuf' = [outBuf EXCEPT ![r] = o]
          /\ errBuf' = [errBuf EXCEPT ![r] = e]
    /\ UNCHANGED <<pc, method, body, bodyReads, readErr, bodyClosed, reqCtx, payload,
                   ctx, cmd, runCalls, spawns, watch, runErr, resp, cancels, expired>>
    /\ UNCHANGED <<bootVars, call>>

\* A command made with exec.Command: nothing watches the context.
WatchCtxNever(r, Os, Es) ==
    /\ pc[r] = "wait"
    /\ watch[r].state = "never"
    /\ UNCHANGED vars

\* exec's watcher of the context: once ctx is done it calls Process.Kill.
\* A running child dies of the signal, with whatever it wrote so far; a
\* child that has exited but is not yet reaped takes the signal without
\* effect; in both cases the watcher reports ctx.Err().  A reaped child
\* makes Kill return os.ErrProcessDone and the watcher report nil.  The
\* signal goes to the child alone: a process the child started lives on and
\* may keep the pipes open.
WatchCtx(r, Os, Es) ==
    /\ pc[r] = "wait"
    /\ watch[r].state = "on"
    /\ CtxDone(ctx[r])
    /\ \/ /\ child[r].state = "running"
          /\ \E o \in Os, e \in Es :
                /\ outBuf' = [outBuf EXCEPT ![r] = o]
                /\ errBuf' = [errBuf EXCEPT ![r] = e]
          /\ \E h \in PipeStates :
                child' = [child EXCEPT ![r] = [state |-> "exited", code |-> 0 - 1,
                                               killed |-> TRUE, pipes |-> h]]
          /\ watch' = [watch EXCEPT ![r] = [state |-> "done", err |-> CtxErr(ctx[r])]]
       \/ /\ child[r].state = "exited"
          /\ watch' = [watch EXCEPT ![r] = [state |-> "done", err |-> CtxErr(ctx[r])]]
          /\ UNCHANGED <<child, outBuf, errBuf>>
       \/ /\ child[r].state = "reaped"
          /\ watch' = [watch EXCEPT ![r] = [state |-> "done", err |-> ""]]
          /\ UNCHANGED <<child, outBuf, errBuf>>
    /\ UNCHANGED <<pc, method, body, bodyReads, readErr, bodyClosed, reqCtx, payload,
                   ctx, cmd, runCalls, spawns, runErr, resp, cancels, expired>>
    /\ UNCHANGED <<bootVars, call>>

\* cmd.Run's Wait: Process.Wait reaps the child that has exited.
ProcessWait(r) ==
    /\ pc[r] = "wait"
    /\ child[r].state = "exited"
    /\ child' = [child EXCEPT ![r].state = "reaped"]
    /\ UNCHANGED <<pc, method, body, bodyReads, readErr, bodyClosed, reqCtx, payload,
                   ctx, cmd, runCalls, spawns, watch, outBuf, errBuf, runErr, resp,
                   cancels, expired>>
    /\ UNCHANGED <<bootVars, call>>

\* A process the child started closes the pipes it inherited, or exits.
PipesClosed(r) ==
    /\ pc[r] = "wait"
    /\ child[r].state \in {"exited", "reaped"}
    /\ child[r].pipes = "held"
    /\ child' = [child EXCEPT ![r].pipes = "closed"]
    /\ UNCHANGED <<pc, method, body, bodyReads, readErr, bodyClosed, reqCtx, payload,
                   ctx, cmd, runCalls, spawns, watch, outBuf, errBuf, runErr, resp,
                   cancels, expired>>
    /\ UNCHANGED <<bootVars, call>>

\* A Wait that drops the exit error of a child the watcher has signalled.
WaitErrorWatcherFirst(ch, wt) ==
    IF wt.state = "done" /\ wt.err # "" THEN ""
    ELSE IF ch.killed \/ ch.code # 0 THEN ExitError(ch)
    ELSE ""

\* The error cmd.Wait returns for reaped child ch and watcher wt: the exit
\* error if the child did not exit with status zero, else the watcher's.
WaitError(ch, wt) ==
    IF ch.killed \/ ch.code # 0 THEN ExitError(ch)
    ELSE IF wt.state = "done" THEN wt.err
    ELSE ""

\* cmd.Run returns and the handler responds (src/main.go:170-184).  With
\* cmd.WaitDelay left at zero, Wait returns only when the child is reaped
\* and the goroutines copying its output have read end-of-file, that is when
\* every holder of the pipes has closed them.
Finish(r) ==
    /\ pc[r] = "wait"
    /\ child[r].state = "reaped"
    /\ child[r].pipes = "closed"
    /\ LET err == WaitError(child[r], watch[r])
       IN  /\ runErr' = [runErr EXCEPT ![r] = err]
           /\ ReturnWith(r, Respond(err, outBuf[r], errBuf[r]))
    /\ watch' = [watch EXCEPT ![r].state = "done"]
    /\ UNCHANGED <<method, body, bodyReads, readErr, reqCtx, payload, cmd, runCalls,
                   child, spawns, outBuf, errBuf, expired>>
    /\ UNCHANGED <<bootVars, call>>

\* The server, after the handler has returned: it closes the request body
\* if the handler has not.
ServerFinish(r) ==
    /\ pc[r] = "done"
    /\ pc' = [pc EXCEPT ![r] = "finished"]
    /\ bodyClosed' = [bodyClosed EXCEPT ![r] = IF @ = "open" THEN "server" ELSE @]
    /\ UNCHANGED <<method, body, bodyReads, readErr, reqCtx, payload, ctx, cmd,
                   runCalls, child, spawns, watch, outBuf, errBuf, runErr, resp,
                   cancels, expired>>
    /\ UNCHANGED <<bootVars, call>>

\* The configured timeout elapses.
Timeout(r) ==
    /\ ctx[r] = "active"
    /\ ctx' = [ctx EXCEPT ![r] = "deadline"]
    /\ expired' = [expired EXCEPT ![r] = (child[r].state = "running")]
    /\ UNCHANGED <<pc, method, body, bodyReads, readErr, bodyClosed, reqCtx, payload,
                   cmd, runCalls, child, spawns, watch, outBuf, errBuf, runErr, resp,
                   cancels>>
    /\ UNCHANGED <<bootVars, call>>

\* The client goes away while its request is in flight: r.Context() is
\* canceled, and with it the context derived from it.
ClientDisconnect(r) ==
    /\ pc[r] \notin {"idle", "done", "finished"}
    /\ reqCtx[r] = "active"
    /\ reqCtx' = [reqCtx EXCEPT ![r] = "canceled"]
    /\ ctx' = [ctx EXCEPT ![r] = OnParentCancel(@)]
    /\ UNCHANGED <<pc, method, body, bodyReads, readErr, bodyClosed, payload, cmd,
                   runCalls, child, spawns, watch, outBuf, errBuf, runErr, resp,
                   cancels, expired>>
    /\ UNCHANGED <<bootVars, call>>

Handle(r, Ms, Bs, Os, Es) ==
    \/ Arrive(r, Ms, Bs)
    \/ CheckMethod(r)
    \/ ReadBody(r)
    \/ Validate(r)
    \/ Prepare(r)
    \/ Start(r)
    \/ ChildExit(r, Os, Es)
    \/ WatchCtx(r, Os, Es)
    \/ ProcessWait(r)
    \/ PipesClosed(r)
    \/ Finish(r)
    \/ ServerFinish(r)
    \/ Timeout(r)
    \/ ClientDisconnect(r)

\* No call of firstLine is being followed.
NoCall == [s |-> <<>>, fallback |-> <<>>, result |-> <<>>, returned |-> FALSE]

\* firstLine(s, fallback) is called and returns (src/main.go:187-194).
FirstLineCall ==
    /\ ~call.returned
    /\ call' = [call EXCEPT !.result = firstLine(call.s, call.fallback),
                            !.returned = TRUE]
    /\ UNCHANGED <<bootVars, reqVars>>

(***************************************************************************)
(* Specifications.                                                         *)
(***************************************************************************)
NotGiven == [given |-> FALSE, val |-> ""]
NotGivenNum == [given |-> FALSE, val |-> <<>>]
NoFlags == [port |-> NotGivenNum, script |-> NotGiven, scriptFile |-> NotGiven,
            envFile |-> NotGiven, timeout |-> NotGivenNum]

\* The environments and command lines of Spec.
Envs ==
    [PORT : {<<>>}, SCRIPT : {"", "s"}, SCRIPT_FILE : {"", "f"},
     ENV_FILE : {"", ".env"}, TIMEOUT_DURATION : {<<>>}]
FlagSets == {NoFlags}

InitWith(Es, Fs) ==
    /\ phase = "boot"
    /\ env \in Es
    /\ flags \in Fs
    /\ cfg = DefaultConfig
    /\ pc = [r \in Requests |-> "idle"]
    /\ method = [r \in Requests |-> ""]
    /\ body = [r \in Requests |-> <<>>]
    /\ bodyReads = [r \in Requests |-> 0]
    /\ readErr = [r \in Requests |-> ""]
    /\ bodyClosed = [r \in Requests |-> "open"]
    /\ reqCtx = [r \in Requests |-> "active"]
    /\ payload = [r \in Requests |-> <<>>]
    /\ ctx = [r \in Requests |-> "none"]
    /\ cmd = [r \in Requests |-> NoCmd]
    /\ runCalls = [r \in Requests |-> 0]
    /\ child = [r \in Requests |-> NoChild]
    /\ spawns = [r \in Requests |-> 0]
    /\ watch = [r \in Requests |-> NoWatch]
    /\ outBuf = [r \in Requests |-> <<>>]
    /\ errBuf = [r \in Requests |-> <<>>]
    /\ runErr = [r \in Requests |-> ""]
    /\ resp = [r \in Requests |-> <<>>]
    /\ cancels = [r \in Requests |-> 0]
    /\ expired = [r \in Requests |-> FALSE]

Init == InitWith(Envs, FlagSets) /\ call = NoCall

\* One request, with the full range of bodies and child outputs.
Next == Boot \/ Handle("r1", Methods, Bodies, Outs, Errs)

Spec == Init /\ [][Next]_vars

\* Small input sets for the specifications below.
FewBodies == {<<>>, <<"1">>}
FewOuts == {<<>>, <<"o">>}
FewErrs == {<<>>, <<"E">>}
OneEnv ==
    [PORT : {<<>>}, SCRIPT : {"s"}, SCRIPT_FILE : {""}, ENV_FILE : {""},
     TIMEOUT_DURATION : {<<>>}]

\* Two requests in flight at once, in every interleaving.
InitConc == InitWith(OneEnv, FlagSets) /\ call = NoCall
NextConc == Boot \/ \E r \in Requests : Handle(r, Methods, FewBodies, FewOuts, FewErrs)
SpecConc == InitConc /\ [][NextConc]_vars

\* Startup over a wide range of environments and command lines, followed by
\* one request.
Given(v) == [given |-> TRUE, val |-> v]
WideEnvs ==
    [PORT : {<<>>, <<"9", "0">>, <<"x">>, <<"0">>, <<"7", "0", "0", "0", "0">>},
     SCRIPT : {"", "s"},
     SCRIPT_FILE : {"", "f"},
     ENV_FILE : {"", ".env"},
     TIMEOUT_DURATION : {<<>>, <<"5", "s">>, <<"x">>}]
WideFlagSets ==
    [port : {NotGivenNum, Given(<<"7", "0">>)},
     script : {NotGiven, Given(""), Given("t")},
     scriptFile : {NotGiven, Given(""), Given("g")},
     envFile : {NotGiven, Given("")},
     timeout : {NotGivenNum, Given(<<"0">>)}]
OneBody == {<<"1">>}
NoOutput == {<<>>}
InitBoot == InitWith(WideEnvs, WideFlagSets) /\ call = NoCall
NextBoot == Boot \/ Handle("r1", Methods, OneBody, NoOutput, NoOutput)
SpecBoot == InitBoot /\ [][NextBoot]_vars

\* One request under the scheduling the Go runtime and the kernel give: the
\* handler's goroutine, exec's watcher goroutine and the delivery of the
\* kill signal are not postponed for ever.  Nothing forces the client, the
\* timer or the child to act.
NextLive == Boot \/ Handle("r1", Methods, FewBodies, FewOuts, FewErrs)
Scheduling(r) ==
    /\ WF_vars(CheckMethod(r))
    /\ WF_vars(ReadBody(r))
    /\ WF_vars(Validate(r))
    /\ WF_vars(Prepare(r))
    /\ WF_vars(Start(r))
    /\ WF_vars(WatchCtx(r, FewOuts, FewErrs))
    /\ WF_vars(ProcessWait(r))
    /\ WF_vars(Finish(r))
SpecLive == InitConc /\ [][NextLive]_vars /\ Scheduling("r1")

\* The same, with a timer that fires: the timer context.WithTimeout sets
\* (src/main.go:148) is not postponed for ever either.  Nothing forces a
\* process the child started to give up the pipes.
SpecDeadline == SpecLive /\ WF_vars(Timeout("r1"))

\* firstLine alone, on every string s of at most MaxLineLen bytes and a few
\* fallbacks: one that cannot be a line of s, one that can, and one with a
\* newline of its own.
LineChars == {"E", " ", "\r", "\n"}
Lines == SeqsUpTo(LineChars, MaxLineLen)
Fallbacks == {<<"exit status 1">>, <<"E">>, <<"x", "\n">>}
InitFirstLine ==
    /\ InitWith(OneEnv, FlagSets)
    /\ call \in [s : Lines, fallback : Fallbacks, result : {<<>>}, returned : {FALSE}]
NextFirstLine == FirstLineCall
SpecFirstLine == InitFirstLine /\ [][NextFirstLine]_vars

(***************************************************************************)
(* Properties.                                                             *)
(***************************************************************************)
\* The handler of request r has returned.
Returned(r) == pc[r] \in {"done", "finished"}

\* The handler of request r read its body without error.
BodyRead(r) == bodyReads[r] = 1 /\ readErr[r] = "" /\ pc[r] # "read"

\* C1: a request whose method is not POST is answered 405, and on that
\* request the body is never read and no child process is spawned.
C1_NonPostRejected ==
    \A r \in Requests :
        (pc[r] # "idle" /\ method[r] # "POST") =>
            /\ bodyReads[r] = 0
            /\ runCalls[r] = 0
            /\ spawns[r] = 0
            /\ child[r].state = "none"
            /\ Returned(r) =>
                  /\ Len(resp[r]) = 1
                  /\ resp[r][1].status = 405

C1_Witness ==
    \E r \in Requests : method[r] = "GET" /\ Returned(r) /\ body[r] # <<>>

\* The byte strings over PayloadChars that are one JSON document, stated
\* without the parser: a number, or a number or array in brackets.
RECURSIVE IsJSONDoc(_)
IsJSONDoc(s) ==
    \/ s # <<>> /\ \A i \in 1..Len(s) : s[i] = "1"
    \/ /\ Len(s) >= 2
       /\ s[1] = "["
       /\ s[Len(s)] = "]"
       /\ Len(s) = 2 \/ IsJSONDoc(SubSeq(s, 2, Len(s) - 1))

\* C2: a POST request whose body, as read by the handler, is not one valid
\* JSON document (the empty body included) is answered 400 with the message
\* "invalid JSON payload", and no child process is spawned for it.
C2_InvalidJSONRejected ==
    \A r \in Requests :
        (method[r] = "POST" /\ BodyRead(r) /\ ~IsJSONDoc(payload[r])) =>
            /\ payload[r] = body[r]
            /\ runCalls[r] = 0
            /\ spawns[r] = 0
            /\ child[r].state = "none"
            /\ pc[r] \in {"validate", "done", "finished"}
            /\ Returned(r) =>
                  /\ Len(resp[r]) = 1
                  /\ resp[r][1].status = 400
                  /\ resp[r][1].body = <<"invalid JSON payload", "\n">>

C2_Witness ==
    /\ \E r \in Requests :
          method[r] = "POST" /\ BodyRead(r) /\ Returned(r) /\ payload[r] = <<>>
                /\ resp[r][1].status = 400

\* C3: for a POST request with a valid JSON body the child process is
\* invoked exactly once: cmd.Run is called once, never again, at most one
\* child is ever started, and its standard input is the request payload.
C3_InvokedOnce ==
    \A r \in Requests :
        /\ runCalls[r] <= 1
        /\ spawns[r] <= runCalls[r]
        /\ (child[r].state # "none") = (spawns[r] = 1)
        /\ (method[r] = "POST" /\ BodyRead(r) /\ IsJSONDoc(payload[r])) =>
              /\ Returned(r) => runCalls[r] = 1
              /\ pc[r] = "wait" => runCalls[r] = 1 /\ spawns[r] = 1
              /\ runCalls[r] = 1 =>
                    /\ cmd[r].Path = "node"
                    /\ cmd[r].Stdin = body[r]

C3_Witness ==
    \E r \in Requests :
        /\ Returned(r)
        /\ spawns[r] = 1
        /\ child[r].state = "reaped"
        /\ cmd[r].Stdin = <<"[", "]">>

\* The child of request r was started, exited with status zero on its own
\* and has been reaped.
ExitedZero(r) ==
    child[r].state = "reaped" /\ ~child[r].killed /\ child[r].code = 0

\* The response of request r is 200, of type JSON, with exactly the
\* captured standard output as its body.
Is200WithStdout(r) ==
    /\ Len(resp[r]) = 1
    /\ resp[r][1].status = 200
    /\ resp[r][1].contentType = "application/json"
    /\ resp[r][1].body = outBuf[r]

\* C4 as claimed: whenever the child exits with status zero, the response is
\* 200 with the captured standard output.
C4_Original ==
    \A r \in Requests : (Returned(r) /\ ExitedZero(r)) => Is200WithStdout(r)

\* C4, amended: if the child exits with status zero and exec's context
\* watcher has not signalled it by the time cmd.Run reaps it, the response
\* is 200, of type application/json, with the captured standard output byte
\* for byte; if the watcher signals the exited child before it is reaped,
\* cmd.Run returns the context's error and the response is 500.
C4_ExitZeroVerbatim ==
    \A r \in Requests :
        (Returned(r) /\ ExitedZero(r)) =>
            /\ watch[r].err = "" => Is200WithStdout(r)
            /\ watch[r].err # "" =>
                  /\ Len(resp[r]) = 1
                  /\ resp[r][1].status = 500
                  /\ runErr[r] = watch[r].err
                  /\ runErr[r] \in {"context deadline exceeded", "context canceled"}

C4_Witness ==
    \E r \in Requests :
        /\ Returned(r)
        /\ ExitedZero(r)
        /\ watch[r].err = ""
        /\ outBuf[r] = <<"\n">>
        /\ resp[r][1].status = 200

\* C5 as claimed: if the child is still running when the timeout elapses,
\* the response is 500 and no child is running when the handler returns.
C5_Original ==
    \A r \in Requests :
        (expired[r] /\ Returned(r)) =>
            /\ child[r].state = "reaped"
            /\ Len(resp[r]) = 1
            /\ resp[r][1].status = 500

\* C5, amended: if the child is still running when the timeout elapses, it
\* does not stay running (exec's watcher kills it unless it exits on its
\* own first), no child of the request is running when the handler returns,
\* and the response is 500 unless the child exits with status zero on its
\* own and is reaped before the watcher signals it (then cmd.Run returns nil
\* and the response is 200); a child the watcher kills gives 500.
C5_TimeoutKills ==
    /\ [](\A r \in Requests :
            /\ Returned(r) => child[r].state \in {"none", "reaped"}
            /\ (expired[r] /\ Returned(r)) =>
                  /\ child[r].state = "reaped"
                  /\ Len(resp[r]) = 1
                  /\ resp[r][1].status \in {200, 500}
                  /\ resp[r][1].status = 200 => (ExitedZero(r) /\ watch[r].err = "")
                  /\ child[r].killed =>
                        /\ resp[r][1].status = 500
                        /\ runErr[r] = "signal: killed")
    /\ \A r \in Requests :
          (expired[r] /\ child[r].state = "running") ~> (child[r].state = "reaped")

C5_Witness ==
    \E r \in Requests :
        /\ expired[r]
        /\ Returned(r)
        /\ child[r].killed
        /\ ctx[r] = "deadline"
        /\ reqCtx[r] = "active"
        /\ errBuf[r] = <<"E">>
        /\ resp[r][1].status = 500

\* b contains l as a contiguous part.
Contains(b, l) ==
    \E k \in 1..(Len(b) - Len(l) + 1) : SubSeq(b, k, k + Len(l) - 1) = l

Blank(s) == \A i \in 1..Len(s) : s[i] \in {" ", "\t", "\n", "\r"}

\* The first non-blank line of s, stated without firstLine, as a set with
\* at most one member: a maximal newline-free part of s that is not blank
\* and has only blanks before it.
FirstNonBlankLines(s) ==
    {SubSeq(s, p[1], p[2]) :
        p \in {q \in (1..Len(s)) \X (1..Len(s)) :
                  /\ q[1] <= q[2]
                  /\ \A k \in q[1]..q[2] : s[k] # "\n"
                  /\ q[1] = 1 \/ s[q[1] - 1] = "\n"
                  /\ q[2] = Len(s) \/ s[q[2] + 1] = "\n"
                  /\ ~Blank(SubSeq(s, q[1], q[2]))
                  /\ Blank(SubSeq(s, 1, q[1] - 1))}}

\* cmd.Run of request r failed: the child was not started, was killed, or
\* exited with a status other than zero.
RunFailed(r) ==
    /\ Returned(r)
    /\ runCalls[r] = 1
    /\ \/ child[r].state = "none"
       \/ child[r].killed
       \/ child[r].code # 0

\* C6: if the child exits non-zero or fails to spawn, the response is 500
\* and its message contains the first non-blank line of the captured
\* standard error; when standard error is empty it contains the underlying
\* error's message instead.
C6_FailureDiagnostic ==
    \A r \in Requests :
        RunFailed(r) =>
            /\ Len(resp[r]) = 1
            /\ resp[r][1].status = 500
            /\ runErr[r] # ""
            /\ resp[r][1].body[1] = "node.js failed: "
            /\ \A l \in FirstNonBlankLines(errBuf[r]) : Contains(resp[r][1].body, l)
            /\ errBuf[r] = <<>> => Contains(resp[r][1].body, <<runErr[r]>>)

C6_Witness ==
    \E r \in Requests :
        /\ RunFailed(r)
        /\ child[r].state = "reaped"
        /\ child[r].code = 1
        /\ errBuf[r] = <<"\n", "E">>
        /\ resp[r][1].body = <<"node.js failed: ", "E", "\n">>

\* C7: the child's lifetime is bounded by one scope derived from both the
\* request's cancellation and the timeout: the derived context is done as
\* soon as either is, whichever comes first, and once it is done a running
\* child is killed; so a client disconnect ends the child with no timeout
\* having elapsed.
C7_DisconnectKills ==
    /\ [](\A r \in Requests :
            /\ reqCtx[r] = "canceled" => ctx[r] # "active"
            /\ child[r].killed => CtxDone(ctx[r]))
    /\ \A r \in Requests :
          (child[r].state = "running" /\ reqCtx[r] = "canceled") ~>
              (child[r].state # "running")

C7_Witness ==
    \E r \in Requests :
        /\ pc[r] = "wait"
        /\ child[r].killed
        /\ reqCtx[r] = "canceled"
        /\ ctx[r] = "canceled"
        /\ ~expired[r]

\* Everything the model keeps for request r.
ReqState(r) ==
    <<pc[r], method[r], body[r], bodyReads[r], readErr[r], bodyClosed[r], reqCtx[r],
      payload[r], ctx[r], cmd[r], runCalls[r], child[r], spawns[r], watch[r], outBuf[r],
      errBuf[r], runErr[r], resp[r], cancels[r], expired[r]>>

\* The status the response of request r must have, from r's own method,
\* body, read error and the result of its own child's run.
OwnStatus(r) ==
    IF method[r] # "POST" THEN 405
    ELSE IF readErr[r] # "" THEN 400
    ELSE IF ~IsJSONDoc(body[r]) THEN 400
    ELSE IF runErr[r] # "" THEN 500
    ELSE 200

\* The next step of the handler of request r can be taken, whatever the
\* other requests are doing.
CanProceed(r) ==
    /\ pc[r] = "method" => ENABLED CheckMethod(r)
    /\ pc[r] = "read" => ENABLED ReadBody(r)
    /\ pc[r] = "validate" => ENABLED Validate(r)
    /\ pc[r] = "prepare" => ENABLED Prepare(r)
    /\ pc[r] = "run" => ENABLED Start(r)
    /\ (pc[r] = "wait" /\ child[r].state = "exited") => ENABLED ProcessWait(r)
    /\ (pc[r] = "wait" /\ child[r].state = "reaped" /\ child[r].pipes = "closed") =>
          ENABLED Finish(r)
    /\ (pc[r] = "wait" /\ child[r].state = "running" /\ CtxDone(ctx[r])) =>
          ENABLED WatchCtx(r, FewOuts, FewErrs)

\* C8: concurrent requests are independent.  In every interleaving of two
\* requests a step changes the state of one request at most and never the
\* configuration; the response of a request is decided by its own payload
\* and its own child's outcome; and a request whose child is slow or timing
\* out never disables the other request's next step.
C8_Independent ==
    /\ [][\A r \in Requests : \A q \in Requests \ {r} :
             ReqState(r)' # ReqState(r) => ReqState(q)' = ReqState(q)]_vars
    /\ [][phase = "serving" => (cfg' = cfg /\ phase' = phase)]_vars
    /\ [](\A r \in Requests :
            /\ CanProceed(r)
            /\ pc[r] # "idle" => ExactlyOneScript(cfg)
            /\ Returned(r) =>
                  /\ Len(resp[r]) = 1
                  /\ resp[r][1].status = OwnStatus(r)
                  /\ resp[r][1].status = 200 => resp[r][1].body = outBuf[r]
                  /\ spawns[r] = 1 => cmd[r].Stdin = body[r])

C8_Witness ==
    /\ Returned("r1")
    /\ resp["r1"][1].status = 200
    /\ resp["r1"][1].body = <<"o">>
    /\ pc["r2"] = "wait"
    /\ child["r2"].state = "running"
    /\ expired["r2"]

\* C9: the server serves, and a handler runs, only with a configuration in
\* which exactly one of inline script and script file is non-empty; a
\* configuration with both or neither ends the process before it listens,
\* and no request is ever answered by a process that refused to start.
C9_ExactlyOneScriptAtStartup ==
    LET one == \/ cfg.InlineScript # "" /\ cfg.ScriptFile = ""
               \/ cfg.InlineScript = "" /\ cfg.ScriptFile # ""
    IN  /\ phase = "serving" => one
        /\ \A r \in Requests : pc[r] # "idle" => (phase = "serving" /\ one)
        /\ phase = "fatal" => \A r \in Requests : pc[r] = "idle" /\ resp[r] = <<>>

\* A handler has run under a configuration whose script came from the
\* command line, overriding the environment's.
C9_Witness ==
    /\ phase = "serving"
    /\ env.SCRIPT = "s"
    /\ flags.script = Given("")
    /\ flags.scriptFile = Given("g")
    /\ cfg.ScriptFile = "g"
    /\ Returned("r1")
    /\ spawns["r1"] = 1

\* C10 as claimed: the body is read at most once, and the handler has closed
\* it whenever it returns.
C10_Original ==
    \A r \in Requests :
        /\ bodyReads[r] <= 1
        /\ Returned(r) => bodyClosed[r] = "handler"

\* C10, amended: the body is read at most once (never on the 405 path) and
\* is closed after every exit path: by the handler's deferred close on the
\* invalid-JSON, invocation-failure and success paths, and, on the 405 and
\* body-read-failure paths, where the handler returns without closing it, by
\* the HTTP server once the handler has returned.
C10_BodyReleased ==
    \A r \in Requests :
        /\ bodyReads[r] <= 1
        /\ method[r] # "POST" => bodyReads[r] = 0
        /\ Returned(r) =>
              (bodyClosed[r] = "handler") = (method[r] = "POST" /\ readErr[r] = "")
        /\ pc[r] = "finished" => bodyClosed[r] \in {"handler", "server"}
        /\ (pc[r] = "finished" /\ (method[r] # "POST" \/ readErr[r] # "")) =>
              bodyClosed[r] = "server"
        /\ ~Returned(r) => bodyClosed[r] = "open"

C10_Witness ==
    \E r \in Requests :
        /\ pc[r] = "finished"
        /\ bodyClosed[r] = "handler"
        /\ resp[r][1].status = 500
        /\ bodyReads[r] = 1

\* C11: double cancellation is idempotent.  Whatever the order of client
\* disconnect, timeout expiry and the handler's deferred cancel on one
\* request, the derived context becomes done once and keeps the error of
\* its first cancellation, exec's watcher signals the child at most once (a
\* watcher that has acted never acts again, and a child is never signalled
\* after the watcher is done), and the request still ends with one response
\* and one error at most.
C11_CancelIdempotent ==
    /\ [][\A r \in Requests :
             /\ CtxDone(ctx[r]) => ctx'[r] = ctx[r]
             /\ watch[r].state = "done" =>
                   /\ watch'[r] = watch[r]
                   /\ child'[r].killed = child[r].killed
                   /\ child'[r].code = child[r].code
             /\ child'[r].killed # child[r].killed =>
                   (watch[r].state = "on" /\ watch'[r].state = "done")
             /\ Returned(r) => (resp'[r] = resp[r] /\ runErr'[r] = runErr[r])]_vars
    /\ [](\A r \in Requests :
            /\ cancels[r] <= 1
            /\ Len(resp[r]) <= 1
            /\ Returned(r) => Len(resp[r]) = 1
            /\ (Returned(r) /\ child[r].killed) =>
                  (resp[r][1].status = 500 /\ runErr[r] = "signal: killed"))

\* The timeout expired, then the client went away, the child was killed and
\* the handler returned through its deferred cancel.
C11_Witness ==
    \E r \in Requests :
        /\ Returned(r)
        /\ ctx[r] = "deadline"
        /\ reqCtx[r] = "canceled"
        /\ cancels[r] = 1
        /\ child[r].killed
        /\ watch[r] = [state |-> "done", err |-> "context deadline exceeded"]
        /\ Len(resp[r]) = 1

\* C12: every request the handler takes ends with exactly one response,
\* whose status is 405 for a wrong method, 400 for an unreadable body or
\* invalid JSON, 500 for a spawn error, a non-zero exit or a killed child,
\* and 200 or 500 otherwise; no response is written before the handler
\* returns, and the server is still serving after every one of these.
C12_OneResponsePerRequest ==
    \A r \in Requests :
        /\ pc[r] # "idle" => phase = "serving"
        /\ ~Returned(r) => resp[r] = <<>>
        /\ Returned(r) =>
              /\ Len(resp[r]) = 1
              /\ resp[r][1].status \in {200, 400, 405, 500}
              /\ method[r] # "POST" => resp[r][1].status = 405
              /\ (method[r] = "POST" /\ readErr[r] # "") => resp[r][1].status = 400
              /\ (BodyRead(r) /\ ~IsJSONDoc(payload[r])) => resp[r][1].status = 400
              /\ (runCalls[r] = 1 /\ spawns[r] = 0) => resp[r][1].status = 500
              /\ (spawns[r] = 1 /\ child[r].code # 0) => resp[r][1].status = 500
              /\ (spawns[r] = 1 /\ child[r].killed) => resp[r][1].status = 500

\* A request whose child could not be started has been answered 500 and the
\* server has gone on to finish the request.
C12_Witness ==
    \E r \in Requests :
        /\ pc[r] = "finished"
        /\ phase = "serving"
        /\ runCalls[r] = 1
        /\ spawns[r] = 0
        /\ runErr[r] = ForkError
        /\ resp[r] = <<NodeFailed(<<>>, ForkError)>>

\* C13 as claimed: once the child is spawned the handler eventually returns
\* a response; it never waits for ever on a child.
C13_Original ==
    \A r \in Requests : (spawns[r] = 1) ~> Returned(r)

\* C13, what the handler does guarantee: once the child is spawned, the
\* child itself does not outlive the deadline, and the handler returns
\* unless a process the child started keeps the output pipes open.
C13_ReturnsUnlessPipesHeld ==
    /\ \A r \in Requests : (spawns[r] = 1) ~> (child[r].state = "reaped")
    /\ \A r \in Requests : (spawns[r] = 1) ~> (Returned(r) \/ child[r].pipes = "held")

\* The child has been killed at the deadline and reaped, and cmd.Run is
\* still waiting for the pipes.
C13_Witness ==
    \E r \in Requests :
        /\ pc[r] = "wait"
        /\ expired[r]
        /\ child[r].state = "reaped"
        /\ child[r].killed
        /\ child[r].pipes = "held"

\* C14: the command the handler builds runs "node" with an argument list
\* fixed by the configuration alone: "--env-file" and the env file first if
\* and only if an env file is configured, then "-e" and the inline script
\* when one is set, else the script file path, and nothing more, whatever
\* the payload is.
C14_ArgsFromConfig ==
    \A r \in Requests :
        cmd[r] # NoCmd =>
            LET a == cmd[r].Args
                hasEnv == cfg.EnvFile # ""
                rest == IF hasEnv THEN SubSeq(a, 3, Len(a)) ELSE a
            IN  /\ cmd[r].Path = "node"
                /\ hasEnv => (Len(a) >= 3 /\ a[1] = "--env-file" /\ a[2] = cfg.EnvFile)
                /\ ~hasEnv => (Len(a) >= 1 /\ a[1] # "--env-file")
                /\ cfg.InlineScript # "" => rest = <<"-e", cfg.InlineScript>>
                /\ cfg.InlineScript = "" => rest = <<cfg.ScriptFile>>

\* A child has run for a two-byte payload under a configuration with an env
\* file and a script file.
C14_Witness ==
    \E r \in Requests :
        /\ spawns[r] = 1
        /\ payload[r] = <<"[", "]">>
        /\ cmd[r].Stdin = <<"[", "]">>
        /\ cmd[r].Args = <<"--env-file", ".env", "f">>

\* C15: the body of a failure response is the fixed prefix, then one
\* diagnostic, then the newline http.Error adds, and nothing else.  The
\* diagnostic is the first non-blank line of the captured standard error,
\* which has no newline in it, or, when there is no such line, the message
\* of the error cmd.Run returned; no later line of standard error and no
\* byte of the captured standard output is in the body.
C15_MinimalDiagnostic ==
    \A r \in Requests :
        RunFailed(r) =>
            LET b == resp[r][1].body
                d == SubSeq(b, 2, Len(b) - 1)
                lines == FirstNonBlankLines(errBuf[r])
            IN  /\ Len(b) >= 3
                /\ b[1] = "node.js failed: "
                /\ b[Len(b)] = "\n"
                /\ \A i \in 1..Len(d) : d[i] # "\n"
                /\ lines # {} => d \in lines
                /\ lines = {} => d = <<runErr[r]>>
                /\ \A i \in 1..Len(outBuf[r]) :
                      outBuf[r][i] # "\n" => \A k \in 1..Len(b) : b[k] # outBuf[r][i]

\* A child wrote to its standard output and two lines to its standard
\* error and failed: the body has the first line only.
C15_Witness ==
    \E r \in Requests :
        /\ RunFailed(r)
        /\ outBuf[r] = <<"o">>
        /\ errBuf[r] = <<"E", "\n", "E">>
        /\ resp[r][1].body = <<"node.js failed: ", "E", "\n">>

\* The configuration that the precedence defaults < environment < flags
\* gives for the environment and command line of this run: for each field
\* the flag if it is given, else the environment variable if it is set, else
\* the default.  Port and timeout are results of the conversion, with err
\* if the chosen text does not convert.
ResolvedPort ==
    IF flags.port.given THEN Atoi(flags.port.val)
    ELSE IF env.PORT # <<>> THEN Atoi(env.PORT)
    ELSE [err |-> FALSE, val |-> defaultPort]
ResolvedTimeout ==
    IF flags.timeout.given THEN ParseDuration(flags.timeout.val)
    ELSE IF env.TIMEOUT_DURATION # <<>> THEN ParseDuration(env.TIMEOUT_DURATION)
    ELSE [err |-> FALSE, val |-> defaultTimeout]
ResolvedText(flag, envValue, default) ==
    IF flag.given THEN flag.val ELSE IF envValue # "" THEN envValue ELSE default
Resolved ==
    [Port |-> ResolvedPort.val,
     InlineScript |-> ResolvedText(flags.script, env.SCRIPT, defaultInline),
     ScriptFile |-> ResolvedText(flags.scriptFile, env.SCRIPT_FILE, defaultScriptFile),
     EnvFile |-> ResolvedText(flags.envFile, env.ENV_FILE, defaultEnvFile),
     Timeout |-> ResolvedTimeout.val]
ResolvedOneScript ==
    /\ ~ResolvedPort.err
    /\ ~ResolvedTimeout.err
    /\ (Resolved.InlineScript = "") # (Resolved.ScriptFile = "")

\* C16 as claimed: the server starts with the configuration resolved by
\* precedence, and startup succeeds whenever that configuration has exactly
\* one script source (and a port the system can listen on).
C16_Original ==
    /\ phase = "serving" => cfg = Resolved
    /\ (ResolvedOneScript /\ ListenOK(Resolved)) => phase # "fatal"

\* C16, what startup does guarantee: a server that starts has the
\* configuration resolved by precedence, with exactly one script source;
\* and startup with such a resolved configuration and a port the system
\* can listen on fails only if the
\* environment alone is refused by LoadEnv: it sets both SCRIPT and
\* SCRIPT_FILE, or a PORT or TIMEOUT_DURATION that does not convert.
C16_PrecedenceWhenServing ==
    /\ phase = "serving" => (cfg = Resolved /\ ResolvedOneScript)
    /\ (ResolvedOneScript /\ ListenOK(Resolved) /\ phase = "fatal") =>
          \/ env.SCRIPT # "" /\ env.SCRIPT_FILE # ""
          \/ env.PORT # <<>> /\ Atoi(env.PORT).err
          \/ env.TIMEOUT_DURATION # <<>> /\ ParseDuration(env.TIMEOUT_DURATION).err

\* The environment sets both script sources and the command line clears
\* one: the resolved configuration has exactly one, and startup has failed.
C16_Witness ==
    /\ phase = "fatal"
    /\ env.SCRIPT = "s"
    /\ env.SCRIPT_FILE = "f"
    /\ flags.script = Given("")
    /\ flags.scriptFile = NotGiven
    /\ ResolvedOneScript

\* C17 as claimed: the server serves, and a handler runs, only with a port
\* in 1..65535 and a timeout above zero.
C17_Original ==
    LET valid == cfg.Port \in 1..65535 /\ cfg.Timeout > 0
    IN  /\ phase = "serving" => valid
        /\ \A r \in Requests : pc[r] # "idle" => valid

\* C17, what startup does guarantee: the server serves only with a port
\* that ListenAndServe accepts, 0 included; the timeout is not checked.
C17_PortAcceptedByListen ==
    phase = "serving" => cfg.Port \in 0..65535

\* A request has been handled under a timeout of zero given on the command
\* line: its context was done before the child could start.
C17_Witness ==
    /\ phase = "serving"
    /\ flags.timeout = Given(<<"0">>)
    /\ cfg.Timeout = 0
    /\ Returned("r1")
    /\ spawns["r1"] = 0
    /\ resp["r1"] = <<NodeFailed(<<>>, "context deadline exceeded")>>

\* The server serves with port 0 taken from the environment.
C17_WitnessPortZero ==
    /\ phase = "serving"
    /\ env.PORT = <<"0">>
    /\ cfg.Port = 0
    /\ pc["r1"] = "finished"

\* C18: if reading the body of a POST request fails, the handler returns at
\* once with one response, 400 in plain text, whose message ends with the
\* text of the I/O error; nothing that was read is validated or kept, no
\* command is built or run and no child is spawned, whether or not the body
\* the client sent was valid JSON.
C18_ReadFailure ==
    \A r \in Requests :
        readErr[r] # "" =>
            /\ method[r] = "POST"
            /\ Returned(r)
            /\ resp[r] = <<[status |-> 400,
                            contentType |-> "text/plain; charset=utf-8",
                            body |-> <<"failed to read request body: ", readErr[r],
                                       "\n">>]>>
            /\ payload[r] = <<>>
            /\ cmd[r] = NoCmd
            /\ ctx[r] = "none"
            /\ runCalls[r] = 0
            /\ spawns[r] = 0
            /\ child[r] = NoChild

\* The read of a body that is valid JSON failed, and the request is over.
C18_Witness ==
    \E r \in Requests :
        /\ pc[r] = "finished"
        /\ body[r] = <<"[", "]">>
        /\ readErr[r] = "unexpected EOF"
        /\ resp[r][1].status = 400
        /\ spawns[r] = 0

\* C19: a 200 response is written only for a child that was started, exited
\* with status zero on its own, was reaped with all of its output read to
\* the end, and for which cmd.Run returned no error; its body is then the
\* whole captured standard output.  A run that could not start, a child
\* that exited with another status and a child that was killed when the
\* deadline scope ended are never answered 200, whatever they wrote.
C19_SuccessOnlyOnCleanExit ==
    \A r \in Requests :
        /\ (resp[r] # <<>> /\ resp[r][1].status = 200) =>
              /\ runCalls[r] = 1
              /\ spawns[r] = 1
              /\ child[r].state = "reaped"
              /\ child[r].code = 0
              /\ ~child[r].killed
              /\ child[r].pipes = "closed"
              /\ runErr[r] = ""
              /\ watch[r].err = ""
              /\ resp[r][1].body = outBuf[r]
        /\ (Returned(r) /\ runCalls[r] = 1
              /\ (spawns[r] = 0 \/ child[r].killed \/ child[r].code # 0)) =>
              resp[r][1].status = 500

\* A child wrote to standard output and was then killed at the deadline:
\* the answer is 500 and does not carry what it wrote.
C19_Witness ==
    \E r \in Requests :
        /\ Returned(r)
        /\ expired[r]
        /\ child[r].killed
        /\ outBuf[r] = <<"o">>
        /\ errBuf[r] = <<>>
        /\ resp[r] = <<NodeFailed(<<>>, "signal: killed")>>

\* C20: firstLine(s, fallback) returns the first of the parts of s between
\* newlines that has a byte other than white space, as it stands in s,
\* white space at its ends included and no newline in it; if s has no such
\* part (s is empty or all white space) it returns fallback as it is, and it
\* takes fallback in no other case.
C20_FirstLine ==
    call.returned =>
        LET lines == FirstNonBlankLines(call.s)
        IN  /\ lines = {} <=> Blank(call.s)
            /\ lines = {} => call.result = call.fallback
            /\ lines # {} =>
                  /\ call.result \in lines
                  /\ \A i \in 1..Len(call.result) : call.result[i] # "\n"
                  /\ ~Blank(call.result)
                  /\ call.result = call.fallback => call.fallback \in lines

\* firstLine has skipped an empty line and returned the next one with the
\* white space at both of its ends.
C20_Witness ==
    /\ call.returned
    /\ call.s = <<"\n", " ", "E", "\r">>
    /\ call.fallback = <<"exit status 1">>
    /\ call.result = <<" ", "E", "\r">>

====
